---- MODULE Spec2Model ----
(***************************************************************************)
(* The j1l tokenizer: the SourceCode cursor (src/src/tokenizer/            *)
(* sourceCode.ts), the span/token constructors (src/src/tokenizer/         *)
(* types.ts) and the scan generator with its sub-generators                *)
(* (src/unnamed/part_002, lines 172-526).                                  *)
(*                                                                         *)
(* A string is a sequence of one-character strings.  A generator is a      *)
(* stack of frames, one per active (sub-)generator; each action runs one   *)
(* block of one routine: from a resume point up to its next yield, its     *)
(* next yield* delegation or its return.  A thrown exception ends the      *)
(* generator with status "thrown".                                         *)
(*                                                                         *)
(* code, head, stack, out and status are the generator being pulled.  A    *)
(* consumer that calls scan more than once also holds runs, the results    *)
(* of the scans it pulled to exhaustion, and parked, the generator it is   *)
(* not pulling at the moment; both stay empty when scan is called once.    *)
(***************************************************************************)
EXTENDS Integers, Sequences, FiniteSets, TLC

VARIABLES code, head, stack, out, status, runs, parked

vars == <<code, head, stack, out, status, runs, parked>>

(* ------------------------------ bounds -------------------------------- *)

\* longest generated tail appended to a context
MaxLen == 2
\* values pulled from one generator before the consumer stops pulling
MaxOut == 24
\* most top-level elements of a generated document
MaxRoots == 2

(* --------------------------- characters ------------------------------- *)

\* src/src/utils/strings.ts: isAlpha (char codes 65..90 and 97..122)
Alpha ==
  {"A","B","C","D","E","F","G","H","I","J","K","L","M","N","O","P","Q","R",
   "S","T","U","V","W","X","Y","Z",
   "a","b","c","d","e","f","g","h","i","j","k","l","m","n","o","p","q","r",
   "s","t","u","v","w","x","y","z"}

\* src/src/utils/strings.ts: isNum (char codes 48..57)
Num == {"0","1","2","3","4","5","6","7","8","9"}

\* src/src/utils/strings.ts: isAlphaNum
AlphaNum == Alpha \cup Num

\* src/src/utils/strings.ts: isWhitespace
Whitespace == {" ", "\t", "\n", "\r"}

\* a predicate on one character: c satisfies it iff (c \in set) = holds
Is(set) == [set |-> set, holds |-> TRUE]
IsNot(set) == [set |-> set, holds |-> FALSE]
Not(cond) == [cond EXCEPT !.holds = ~cond.holds]
Sat(cond, c) == (c \in cond.set) = cond.holds

isWhitespace == Is(Whitespace)
isNum == Is(Num)
isAlphaNum == Is(AlphaNum)
\* sourceCode.ts eatName: char === "_" || char === "-" || isAlphaNum(char)
isNameChar == Is({"_", "-"} \cup AlphaNum)

(* ----------------------- locations, spans, tokens --------------------- *)

Location(o, l, c) == [offset |-> o, line |-> l, column |-> c]

\* an absent span (null / undefined) is <<>>, a present one is <<span>>
Null == <<>>
Some(s) == <<s>>
IsNull(x) == x = <<>>
The(x) == x[1]

\* types.ts createSpan(text, start, end?): end defaults to start
createSpan(text, start, end) ==
  [text |-> text, start |-> start,
   end |-> IF IsNull(end) THEN start ELSE The(end)]

RECURSIVE JoinText(_)
JoinText(spans) ==
  IF spans = <<>> THEN <<>> ELSE Head(spans).text \o JoinText(Tail(spans))

\* types.ts concatSpans(...spans): the null spans are filtered out; callers
\* pass at least one non-null span
concatSpans(spans) ==
  LET filteredSpans == SelectSeq(spans, LAMBDA s : ~IsNull(s))
      flat == [i \in 1..Len(filteredSpans) |-> The(filteredSpans[i])]
  IN  [text |-> JoinText(flat),
       start |-> flat[1].start,
       end |-> flat[Len(flat)].end]

\* types.ts createToken
createToken(kind, span) == [kind |-> kind, value |-> span]

\* either.ts
left(value) == [tag |-> "left", value |-> value]
right(value) == [tag |-> "right", value |-> value]
isLeft(e) == e.tag = "left"
isRight(e) == e.tag = "right"

(* ------------------------------ cursor -------------------------------- *)

Min(a, b) == IF a < b THEN a ELSE b

\* sourceCode.ts isEOF
isEOF(src, h) == h.offset >= Len(src)

\* sourceCode.ts peek(delta, count): String.substring clamps to the end
peek(src, h, delta, count) ==
  SubSeq(src, h.offset + delta + 1, Min(Len(src), h.offset + delta + count))

\* a step over a line end that goes on counting the column
StepKeepsColumn(h, c) ==
  IF c = "\n" THEN Location(h.offset + 1, h.line + 1, h.column + 1)
  ELSE Location(h.offset + 1, h.line, h.column + 1)

\* sourceCode.ts eat, lines 72-80: the head moves over one character
Step(h, c) ==
  IF c = "\n" THEN Location(h.offset + 1, h.line + 1, 1)
  ELSE Location(h.offset + 1, h.line, h.column + 1)

RECURSIVE Advance(_, _)
Advance(h, str) ==
  IF str = <<>> THEN h ELSE Advance(Step(h, Head(str)), Tail(str))

\* the result of a cursor operation: thrown, or a span (or null) and the
\* head it leaves
Thrown(h) == [thrown |-> TRUE, span |-> Null, head |-> h]
Got(span, h) == [thrown |-> FALSE, span |-> span, head |-> h]

\* eat that adds count to the offset instead of counting the characters it
\* read
eatByCount(src, h, count) ==
  LET str == peek(src, h, 0, count)
      h2 == [Advance(h, str) EXCEPT !.offset = h.offset + count]
  IN  Got(Some(createSpan(str, h, Some(h2))), h2)

\* eat that moves over the characters it found before it fails
eatThenThrow(src, h, count) ==
  LET str == peek(src, h, 0, count)
      h2 == Advance(h, str)
  IN  IF Len(str) # count THEN Thrown(h2)
      ELSE Got(Some(createSpan(str, h, Some(h2))), h2)

\* sourceCode.ts eat(count): throws, head untouched, when fewer than count
\* characters remain
eat(src, h, count) ==
  LET str == peek(src, h, 0, count)
  IN  IF Len(str) # count THEN Thrown(h)
      ELSE LET h2 == Advance(h, str)
           IN  Got(Some(createSpan(str, h, Some(h2))), h2)

\* eatUntil without lines 103-106: a backslash is a character like any other
RECURSIVE eatUntilCountNoEscape(_, _, _, _)
eatUntilCountNoEscape(src, h, cond, count) ==
  LET char == peek(src, h, count, 1)
  IN  IF char = <<>> \/ Sat(cond, char[1]) THEN count
      ELSE eatUntilCountNoEscape(src, h, cond, count + 1)

\* sourceCode.ts eatUntil, lines 100-114: the count of characters to eat;
\* a backslash skips itself and the next position whatever is there
RECURSIVE eatUntilCount(_, _, _, _)
eatUntilCount(src, h, cond, count) ==
  LET char == peek(src, h, count, 1)
  IN  IF char = <<"\\">> THEN eatUntilCount(src, h, cond, count + 2)
      ELSE IF char = <<>> \/ Sat(cond, char[1]) THEN count
      ELSE eatUntilCount(src, h, cond, count + 1)

\* sourceCode.ts eatUntil
eatUntil(src, h, cond) ==
  LET count == eatUntilCount(src, h, cond, 0)
  IN  IF count = 0 THEN Got(Null, h) ELSE eat(src, h, count)

\* sourceCode.ts eatWhile
eatWhile(src, h, cond) == eatUntil(src, h, Not(cond))

\* sourceCode.ts eatExactly
eatExactly(src, h, expected) ==
  IF peek(src, h, 0, Len(expected)) # expected THEN Thrown(h)
  ELSE eat(src, h, Len(expected))

\* sourceCode.ts eatIf
eatIf(src, h, expected) ==
  IF peek(src, h, 0, Len(expected)) # expected THEN Got(Null, h)
  ELSE eat(src, h, Len(expected))

\* eatWhitespace that stops at a line end
eatWhitespaceInLine(src, h) == eatWhile(src, h, Is({" ", "\t"}))

\* sourceCode.ts eatWhitespace, eatWord, eatName
eatWhitespace(src, h) == eatWhile(src, h, isWhitespace)
eatWord(src, h) == eatWhile(src, h, isAlphaNum)
eatName(src, h) == eatWhile(src, h, isNameChar)

\* sourceCode.ts eatNumber: four consumptions in a row, each from the head
\* the previous one left; null when both digit runs are empty
eatNumber(src, h) ==
  LET negativeSign == eatIf(src, h, <<"-">>)
      integerPart == eatWhile(src, negativeSign.head, isNum)
      decimalPoint == eatIf(src, integerPart.head, <<".">>)
      fractionalPart == eatWhile(src, decimalPoint.head, isNum)
  IN  IF integerPart.thrown THEN Thrown(integerPart.head)
      ELSE IF fractionalPart.thrown THEN Thrown(fractionalPart.head)
      ELSE IF IsNull(integerPart.span) /\ IsNull(fractionalPart.span)
           THEN Got(Null, fractionalPart.head)
      ELSE Got(Some(concatSpans(<<negativeSign.span, integerPart.span,
                                  decimalPoint.span, fractionalPart.span>>)),
               fractionalPart.head)

\* formatError with the column counted from 0
formatErrorColumnFromZero(h, error, arg) ==
  [error |-> error, arg |-> arg, line |-> h.line, column |-> h.column - 1]

\* sourceCode.ts formatError: `${error} (${line}, ${column})`; the message
\* is kept with the text spliced into it, the position as two numbers
formatError(h, error, arg) ==
  [error |-> error, arg |-> arg, line |-> h.line, column |-> h.column]

(* ---------------------------- generators ------------------------------ *)

\* the frame of a freshly called generator, with its locals unset
Frame(fn) ==
  CASE fn = "scanTag" ->
         [fn |-> fn, pc |-> "start", leadingSlash |-> Null,
          trailingSlash |-> Null]
    [] fn = "scanAttributes" ->
         [fn |-> fn, pc |-> "start", equalSign |-> Null]
    [] fn = "scanStringLiteral" ->
         [fn |-> fn, pc |-> "start", leadingQuote |-> Null, str |-> Null,
          trailingQuote |-> Null]
    [] fn = "scanAttributeName" ->
         [fn |-> fn, pc |-> "start", prefixOrName |-> Null, colon |-> Null]
    [] OTHER -> [fn |-> fn, pc |-> "start"]

Top == stack[Len(stack)]
Below == SubSeq(stack, 1, Len(stack) - 1)

\* the running generator is at block pc of routine fn, and is being pulled
At(fn, pc) ==
  /\ status = "running"
  /\ Len(out) < MaxOut
  /\ Top.fn = fn
  /\ Top.pc = pc

\* the stack after: moving on to block pc; replacing the frame; delegating
\* (yield*) to routine fn and resuming at block pc; returning
Goto(pc) == Append(Below, [Top EXCEPT !.pc = pc])
With(frame) == Append(Below, frame)
Call(fn, pc) == Append(Goto(pc), Frame(fn))
CallWith(frame, fn) == Append(With(frame), Frame(fn))
Return == Below

Token(kind, span) == right(createToken(kind, span))
Error(h, error, arg) == left(formatError(h, error, arg))

\* the block ends with the head at h, the stream o and the stack st
Do(h, o, st) ==
  /\ head' = h
  /\ out' = o
  /\ stack' = st
  /\ status' = IF st = <<>> THEN "done" ELSE "running"
  /\ code' = code
  /\ UNCHANGED <<runs, parked>>

\* an exception leaves the generator: it is finished, nothing is yielded
Throw(h) ==
  /\ head' = h
  /\ out' = out
  /\ stack' = <<>>
  /\ status' = "thrown"
  /\ code' = code
  /\ UNCHANGED <<runs, parked>>

(* scan, part_002 lines 192-218 *)

\* line 195: the loop condition; line 196: yield* scanTrivia
scan_loop ==
  /\ At("scan", "start")
  /\ IF isEOF(code, head) THEN Do(head, out, Goto("tail"))
     ELSE Do(head, out, Call("scanTrivia", "peek"))

\* lines 198-209 for a document of one root element: a '<' after a closed
\* element is an unexpected character
scan_peekSingleRoot ==
  /\ At("scan", "peek")
  /\ LET char == peek(code, head, 0, 1)
         closed == \E i \in 1..Len(out) : isRight(out[i])
                                          /\ out[i].value.kind = "Slash"
     IN  IF char = <<>> THEN Do(head, out, Goto("tail"))
         ELSE IF char = <<"<">> /\ ~closed
           THEN Do(head, out, Call("scanTag", "start"))
         ELSE Do(head,
                 Append(out, Error(head, "Unexpected character", char)),
                 Goto("return"))

\* lines 198-209
scan_peek ==
  /\ At("scan", "peek")
  /\ LET char == peek(code, head, 0, 1)
     IN  IF char = <<>> THEN Do(head, out, Goto("tail"))
         ELSE IF char = <<"<">> THEN Do(head, out, Call("scanTag", "start"))
         ELSE Do(head,
                 Append(out, Error(head, "Unexpected character", char)),
                 Goto("return"))

\* line 212
scan_tail ==
  /\ At("scan", "tail")
  /\ Do(head, out, Call("scanTrivia", "eof"))

\* line 215 with the column of the head counted from 0
scan_eofColumnFromZero ==
  /\ At("scan", "eof")
  /\ Do(head,
        Append(out, Token("EOF",
                 createSpan(<<>>, [head EXCEPT !.column = @ - 1], Null))),
        Goto("return"))

\* line 215
scan_eof ==
  /\ At("scan", "eof")
  /\ Do(head, Append(out, Token("EOF", createSpan(<<>>, head, Null))),
        Goto("return"))

\* a return statement reached after a yield (any routine)
return ==
  /\ status = "running"
  /\ Top.pc = "return"
  /\ Do(head, out, Return)

(* scanTrivia, part_002 lines 508-525 *)

scanTrivia ==
  /\ At("scanTrivia", "start")
  /\ IF isEOF(code, head) THEN Do(head, out, Return)
     ELSE
       LET whitespace == eatWhitespace(code, head)
           hash == eatIf(code, head, <<"#">>)
           comment == eatWhile(code, hash.head, IsNot({"\n"}))
       IN  IF whitespace.thrown THEN Throw(whitespace.head)
           ELSE IF ~IsNull(whitespace.span)
             THEN Do(whitespace.head,
                     Append(out, Token("Whitespace", The(whitespace.span))),
                     stack)
           ELSE IF ~IsNull(hash.span)
             THEN IF comment.thrown THEN Throw(comment.head)
                  ELSE Do(comment.head,
                          Append(out, Token("Comment",
                                   concatSpans(<<hash.span, comment.span>>))),
                          stack)
           ELSE Do(head, out, Return)

(* scanTag, part_002 lines 225-258 *)

\* line 226
scanTag_lessThan ==
  /\ At("scanTag", "start")
  /\ LET lessThan == eatExactly(code, head, <<"<">>)
     IN  IF lessThan.thrown THEN Throw(lessThan.head)
         ELSE Do(lessThan.head,
                 Append(out, Token("LessThan", The(lessThan.span))),
                 Goto("leadingSlash"))

\* lines 228-231
scanTag_leadingSlash ==
  /\ At("scanTag", "leadingSlash")
  /\ LET leadingSlash == eatIf(code, head, <<"/">>)
         frame == [Top EXCEPT !.leadingSlash = leadingSlash.span,
                              !.pc = "tagName"]
     IN  IF ~IsNull(leadingSlash.span)
           THEN Do(leadingSlash.head,
                   Append(out, Token("Slash", The(leadingSlash.span))),
                   With(frame))
           ELSE Do(head, out, With(frame))

\* line 233
scanTag_tagName ==
  /\ At("scanTag", "tagName")
  /\ Do(head, out, Call("scanTagName", "attributes"))

\* lines 235-237
scanTag_attributes ==
  /\ At("scanTag", "attributes")
  /\ IF IsNull(Top.leadingSlash)
       THEN Do(head, out, Call("scanAttributes", "trailingSlash"))
       ELSE Do(head, out, Goto("trailingSlash"))

\* lines 239-242
scanTag_trailingSlash ==
  /\ At("scanTag", "trailingSlash")
  /\ LET trailingSlash == eatIf(code, head, <<"/">>)
         frame == [Top EXCEPT !.trailingSlash = trailingSlash.span,
                              !.pc = "selfClosing"]
     IN  IF ~IsNull(trailingSlash.span)
           THEN Do(trailingSlash.head,
                   Append(out, Token("Slash", The(trailingSlash.span))),
                   With(frame))
           ELSE Do(head, out, With(frame))

\* lines 243-245 with a return after the yield of line 244
scanTag_selfClosingReturns ==
  /\ At("scanTag", "selfClosing")
  /\ IF ~IsNull(Top.leadingSlash) /\ ~IsNull(Top.trailingSlash)
       THEN Do(head,
               Append(out, Error(head, "A closing tag cannot be self-closing",
                                 <<>>)),
               Goto("return"))
       ELSE Do(head, out, Goto("greaterThan"))

\* lines 243-245
scanTag_selfClosing ==
  /\ At("scanTag", "selfClosing")
  /\ IF ~IsNull(Top.leadingSlash) /\ ~IsNull(Top.trailingSlash)
       THEN Do(head,
               Append(out, Error(head, "A closing tag cannot be self-closing",
                                 <<>>)),
               Goto("greaterThan"))
       ELSE Do(head, out, Goto("greaterThan"))

\* lines 247-252 without the return of line 251
scanTag_greaterThanGoesOn ==
  /\ At("scanTag", "greaterThan")
  /\ LET greaterThan == eatIf(code, head, <<">">>)
     IN  IF IsNull(greaterThan.span)
           THEN Do(head,
                   Append(out, Error(head, "Expected '>' at the end of the tag",
                                     <<>>)),
                   Goto("children"))
           ELSE Do(greaterThan.head,
                   Append(out, Token("GreaterThan", The(greaterThan.span))),
                   Goto("children"))

\* lines 247-252
scanTag_greaterThan ==
  /\ At("scanTag", "greaterThan")
  /\ LET greaterThan == eatIf(code, head, <<">">>)
     IN  IF IsNull(greaterThan.span)
           THEN Do(head,
                   Append(out, Error(head, "Expected '>' at the end of the tag",
                                     <<>>)),
                   Goto("return"))
           ELSE Do(greaterThan.head,
                   Append(out, Token("GreaterThan", The(greaterThan.span))),
                   Goto("children"))

\* lines 255-258
scanTag_children ==
  /\ At("scanTag", "children")
  /\ IF IsNull(Top.leadingSlash) /\ IsNull(Top.trailingSlash)
       THEN Do(head, out, Call("scanChildren", "return"))
       ELSE Do(head, out, Return)

(* scanAttributes, part_002 lines 265-292 *)

\* line 266: the loop condition; line 267: yield* scanTrivia
scanAttributes_loop ==
  /\ At("scanAttributes", "start")
  /\ IF isEOF(code, head) THEN Do(head, out, Return)
     ELSE Do(head, out, Call("scanTrivia", "peek"))

\* lines 269-274
scanAttributes_peek ==
  /\ At("scanAttributes", "peek")
  /\ LET char == peek(code, head, 0, 1)
     IN  IF char = <<">">> \/ char = <<"/">> THEN Do(head, out, Return)
         ELSE Do(head, out, Call("scanAttributeName", "trivia"))

\* line 275
scanAttributes_trivia ==
  /\ At("scanAttributes", "trivia")
  /\ Do(head, out, Call("scanTrivia", "equalSign"))

\* lines 277-278: the '=' is eaten here and yielded after the trivia
scanAttributes_equalSign ==
  /\ At("scanAttributes", "equalSign")
  /\ LET equalSign == eatIf(code, head, <<"=">>)
     IN  Do(equalSign.head, out,
            CallWith([Top EXCEPT !.equalSign = equalSign.span,
                                 !.pc = "equal"],
                     "scanTrivia"))

\* lines 280-286
scanAttributes_equal ==
  /\ At("scanAttributes", "equal")
  /\ IF ~IsNull(Top.equalSign)
       THEN Do(head, Append(out, Token("Equal", The(Top.equalSign))),
               Goto("expression"))
       ELSE Do(head, out, Goto("start"))

\* line 288
scanAttributes_expression ==
  /\ At("scanAttributes", "expression")
  /\ Do(head, out, Call("scanExpression", "start"))

(* scanChildren, part_002 lines 299-321 *)

\* line 300: the loop condition; line 301: yield* scanTrivia
scanChildren_loop ==
  /\ At("scanChildren", "start")
  /\ IF isEOF(code, head) THEN Do(head, out, Return)
     ELSE Do(head, out, Call("scanTrivia", "peek"))

\* lines 303-314
scanChildren_peek ==
  /\ At("scanChildren", "peek")
  /\ LET char == peek(code, head, 0, 1)
     IN  IF char = <<>> THEN Do(head, out, Return)
         ELSE IF char = <<"<">>
           THEN IF peek(code, head, 1, 1) = <<"/">>
                  THEN Do(head, out, Return)
                  ELSE Do(head, out, Call("scanTag", "text"))
         ELSE Do(head, out, Goto("text"))

\* lines 316-319
scanChildren_text ==
  /\ At("scanChildren", "text")
  /\ LET text == eatWhile(code, head, IsNot({"<"}))
     IN  IF text.thrown THEN Throw(text.head)
         ELSE IF ~IsNull(text.span)
           THEN Do(text.head, Append(out, Token("Text", The(text.span))),
                   Goto("start"))
         ELSE Do(head, out, Goto("start"))

(* scanExpression, part_002 lines 328-345 *)

scanExpression ==
  /\ At("scanExpression", "start")
  /\ LET char == peek(code, head, 0, 1)
     IN  IF isEOF(code, head)
           THEN Do(head,
                   Append(out, Error(head,
                            "Expected an expression, but found EOF", <<>>)),
                   Goto("return"))
         ELSE IF Sat(isNum, char[1]) \/ char = <<"-">> \/ char = <<".">>
           THEN Do(head, out, Call("scanNumberLiteral", "return"))
         ELSE IF char = <<"\"">>
           THEN Do(head, out, Call("scanStringLiteral", "return"))
         ELSE Do(head, out, Call("scanKeyword", "return"))

(* scanNumberLiteral, part_002 lines 352-361 *)

scanNumberLiteral ==
  /\ At("scanNumberLiteral", "start")
  /\ LET numberLiteral == eatNumber(code, head)
     IN  IF numberLiteral.thrown THEN Throw(numberLiteral.head)
         ELSE IF IsNull(numberLiteral.span)
           THEN Do(numberLiteral.head,
                   Append(out, Error(numberLiteral.head,
                                     "Invalid number literal", <<>>)),
                   Goto("return"))
         ELSE Do(numberLiteral.head,
                 Append(out, Token("NumberLiteral", The(numberLiteral.span))),
                 Goto("return"))

(* scanStringLiteral, part_002 lines 368-385 *)

\* lines 369-377
scanStringLiteral_quotes ==
  /\ At("scanStringLiteral", "start")
  /\ LET leadingQuote == eatExactly(code, head, <<"\"">>)
         str == eatUntil(code, leadingQuote.head, Is({"\""}))
         trailingQuote == eatIf(code, str.head, <<"\"">>)
         frame == [Top EXCEPT !.leadingQuote = leadingQuote.span,
                              !.str = str.span,
                              !.trailingQuote = trailingQuote.span,
                              !.pc = "token"]
     IN  IF leadingQuote.thrown THEN Throw(leadingQuote.head)
         ELSE IF str.thrown THEN Throw(str.head)
         ELSE IF IsNull(trailingQuote.span)
           THEN Do(trailingQuote.head,
                   Append(out, Error(trailingQuote.head,
                     "Unterminated string literal, missing closing quote",
                     <<>>)),
                   With(frame))
         ELSE Do(trailingQuote.head, out, With(frame))

\* lines 379-384: createSpan(str?.text ?? "", leadingQuote.start,
\* trailingQuote?.end)
scanStringLiteral_token ==
  /\ At("scanStringLiteral", "token")
  /\ LET text == IF IsNull(Top.str) THEN <<>> ELSE The(Top.str).text
         end == IF IsNull(Top.trailingQuote) THEN Null
                ELSE Some(The(Top.trailingQuote).end)
     IN  Do(head,
            Append(out, Token("StringLiteral",
                     createSpan(text, The(Top.leadingQuote).start, end))),
            Goto("return"))

(* scanKeyword, part_002 lines 392-407 *)

scanKeyword ==
  /\ At("scanKeyword", "start")
  /\ LET word == eatWord(code, head)
     IN  IF word.thrown THEN Throw(word.head)
         ELSE IF IsNull(word.span)
           THEN Do(head, Append(out, Error(head, "Expected identifier", <<>>)),
                   Goto("return"))
         ELSE IF The(word.span).text \in {<<"t","r","u","e">>,
                                          <<"f","a","l","s","e">>}
           THEN Do(word.head,
                   Append(out, Token("BooleanLiteral", The(word.span))),
                   Goto("return"))
         ELSE Do(word.head,
                 Append(out, Error(word.head, "Unrecognized keyword",
                                   The(word.span).text)),
                 Goto("return"))

(* scanTagName, part_002 lines 414-472 *)

\* lines 421-426
scanTagName_peek ==
  /\ At("scanTagName", "start")
  /\ LET char == peek(code, head, 0, 1)
     IN  IF char = <<>> \/ char = <<">">> \/ char = <<"/">>
           THEN Do(head, out, Return)
           ELSE Do(head, out, Call("scanTrivia", "shorthandAccess"))

\* lines 430-433
scanTagName_shorthandAccess ==
  /\ At("scanTagName", "shorthandAccess")
  /\ LET shorthandAccess == eatIf(code, head, <<".">>)
     IN  IF ~IsNull(shorthandAccess.span)
           THEN Do(shorthandAccess.head,
                   Append(out, Token("Dot", The(shorthandAccess.span))),
                   Goto("atSign"))
           ELSE Do(head, out, Goto("atSign"))

\* lines 435-438
scanTagName_atSign ==
  /\ At("scanTagName", "atSign")
  /\ LET atSign == eatIf(code, head, <<"@">>)
     IN  IF ~IsNull(atSign.span)
           THEN Do(atSign.head,
                   Append(out, Token("AtSign", The(atSign.span))),
                   Goto("nameOrPrefix"))
           ELSE Do(head, out, Goto("nameOrPrefix"))

\* lines 440-443
scanTagName_nameOrPrefix ==
  /\ At("scanTagName", "nameOrPrefix")
  /\ LET nameOrPrefix == eatName(code, head)
     IN  IF nameOrPrefix.thrown THEN Throw(nameOrPrefix.head)
         ELSE IF ~IsNull(nameOrPrefix.span)
           THEN Do(nameOrPrefix.head,
                   Append(out, Token("Name", The(nameOrPrefix.span))),
                   Goto("colon"))
         ELSE Do(head, out, Goto("colon"))

\* lines 447-452
scanTagName_colon ==
  /\ At("scanTagName", "colon")
  /\ LET colon == eatIf(code, head, <<":">>)
     IN  IF ~IsNull(colon.span)
           THEN Do(colon.head, Append(out, Token("Colon", The(colon.span))),
                   Goto("target"))
           ELSE Do(head, out, Return)

\* lines 454-457
scanTagName_target ==
  /\ At("scanTagName", "target")
  /\ LET target == eatName(code, head)
     IN  IF target.thrown THEN Throw(target.head)
         ELSE IF ~IsNull(target.span)
           THEN Do(target.head, Append(out, Token("Name", The(target.span))),
                   Goto("memberAccess"))
         ELSE Do(head, out, Goto("memberAccess"))

\* lines 459-464
scanTagName_memberAccess ==
  /\ At("scanTagName", "memberAccess")
  /\ LET memberAccess == eatIf(code, head, <<".">>)
     IN  IF ~IsNull(memberAccess.span)
           THEN Do(memberAccess.head,
                   Append(out, Token("Dot", The(memberAccess.span))),
                   Goto("property"))
           ELSE Do(head, out, Return)

\* lines 466-471
scanTagName_property ==
  /\ At("scanTagName", "property")
  /\ LET property == eatName(code, head)
     IN  IF property.thrown THEN Throw(property.head)
         ELSE IF IsNull(property.span)
           THEN Do(head,
                   Append(out, Error(head, "Expected property name after '.'",
                                     <<>>)),
                   Goto("return"))
         ELSE Do(property.head,
                 Append(out, Token("Name", The(property.span))),
                 Goto("return"))

(* scanAttributeName, part_002 lines 479-501 *)

\* lines 480-488: the first name is yielded only when a ':' follows it
scanAttributeName_prefixOrName ==
  /\ At("scanAttributeName", "start")
  /\ LET prefixOrName == eatName(code, head)
         colon == eatIf(code, prefixOrName.head, <<":">>)
         frame == [Top EXCEPT !.prefixOrName = prefixOrName.span,
                              !.colon = colon.span]
     IN  IF prefixOrName.thrown THEN Throw(prefixOrName.head)
         ELSE IF IsNull(prefixOrName.span)
           THEN Do(head,
                   Append(out, Error(head, "Expected attribute name", <<>>)),
                   Goto("return"))
         ELSE IF ~IsNull(colon.span)
           THEN Do(colon.head,
                   Append(out, Token("Name", The(prefixOrName.span))),
                   With([frame EXCEPT !.pc = "colon"]))
         ELSE Do(colon.head, out, With([frame EXCEPT !.pc = "name"]))

\* line 489
scanAttributeName_colon ==
  /\ At("scanAttributeName", "colon")
  /\ Do(head, Append(out, Token("Colon", The(Top.colon))), Goto("name"))

\* lines 492-500
scanAttributeName_name ==
  /\ At("scanAttributeName", "name")
  /\ LET name == eatName(code, head)
     IN  IF name.thrown THEN Throw(name.head)
         ELSE IF ~IsNull(Top.colon) /\ IsNull(name.span)
           THEN Do(head,
                   Append(out, Error(head, "Expected attribute name", <<>>)),
                   Goto("return"))
         ELSE IF ~IsNull(name.span)
           THEN Do(name.head, Append(out, Token("Name", The(name.span))),
                   Goto("return"))
         ELSE Do(head, out, Return)

(* ------------------------------ inputs -------------------------------- *)

\* one character of each class the scanner tells apart
Alphabet ==
  {"<", ">", "/", "=", "\"", "\\", " ", "\n", "#", ":", ".", "-", "@", "1",
   "a", "!"}

Strings(n) == UNION {[1..k -> Alphabet] : k \in 0..n}

\* the places a generated tail is scanned from: the document level, a tag
\* header, an attribute value, the children of an element
Contexts ==
  {<<>>, <<"<", "A", " ">>, <<"<", "A", " ", "b", "=">>, <<"<", "A", ">">>}

\* the inputs of src/src/tokenizer/tokenizer.spec.ts (names and texts
\* shortened), one input for each form the routines document, and four
\* with a backslash: after a property dot, an attribute colon and a
\* keyword, and at the end of a comment line
Corpus ==
  {
    <<" ", " ", "\n", "\t", " ">>,
    <<"#", " ", "c">>,
    <<"S", "o">>,
    <<"<", "P", "/", ">">>,
    <<"<", "/", "P", ">">>,
    <<"<", "/", ">">>,
    <<"<", "A", ">", "<", "/", "A", ">", "<", "B", ">", "<", "/", "B", ">">>,
    <<"<", "A", ">", "\n", "<", "B", ">", "<", "/", "B", ">", " ", "#", " ", "c", "\n", "<", "/", "A", ">">>,
    <<"<", " ", "/", ">">>,
    <<"<", "P", " ", "n", "=", "\"", "S", "\"">>,
    <<"#", " ", "C", ":", " ", "<", "P", " ", "t", "=", "\"", "U", "\"", " ", "/", ">">>,
    <<"<", "T", ">", "W", "e", " ", "t", "o", "<", "/", "T", ">">>,
    <<"<", "S", " ", "n", "=", "\"", "M", "\"", " ", "v", "=", "\"", "2", ".", "1", "\"", " ", "/", ">">>,
    <<"<", "C", " ", "v", "=", "t", "r", "u", "e", " ", "/", ">">>,
    <<"<", "C", " ", "v", "=", "f", "a", "l", "s", "e", " ", "/", ">">>,
    <<"<", "C", " ", "v", "=", "4", "2", " ", "/", ">">>,
    <<"<", "C", " ", "v", "=", "-", "2", "7", "3", ".", "1", "5", " ", "/", ">">>,
    <<"<", "C", " ", "v", "=", ".", "2", "5", " ", "/", ">">>,
    <<"<", "R", " ", "f", "=", "\"", "e", "\"", " ", "r", "e", "q", "u", "i", "r", "e", "d", " ", "/", ">">>,
    <<"<", "S", " ", "t", "=", "\"", "S", " ", "\\", "\"", "t", "\\", "\"", "\"", " ", "/", ">">>,
    <<"<", "S", " ", "t", "=", "\"", "S", " ", "t", "\\", "\\", "\"", " ", "/", ">">>,
    <<"<", "c", "f", "g", ":", "P", " ", "b", "i", "n", "d", ":", "t", "i", "t", "l", "e", "=", "\"", "U", " ", "P", "\"", " ", "/", ">">>,
    <<"<", "T", " ", "v", "=", "\"", "t", "e", "s", "t", "\\">>,
    <<"<", "T", " ", "v", "=", "\"", "t", "e", "s", "t">>,
    <<"<", "T", " ", "v", "=", "-", " ", "/", ">">>,
    <<"<", "T", " ", "v", "=", ".", " ", "/", ">">>,
    <<"<", "T", " ", "v", "=", "-", ".", "5", " ", "/", ">">>,
    <<"<", "T", " ", "v", "=", "-", "0", " ", "/", ">">>,
    <<"<", "P", ">", " ", " ", "\n", "\t", " ", "<", "/", "P", ">">>,
    <<"<", "D", " ", "#", " ", "S", "\n", " ", "n", " ", "=", " ", "\"", "p", "\"", " ", "#", " ", "P", "\n", " ", "s", " ", "=", " ", "\"", "q", "\"", " ", "/", ">">>,
    <<"<", ".", "p", "/", ">">>,
    <<"<", "@", "n", "/", ">">>,
    <<"<", "p", ":", "t", ".", "q", " ", "/", ">">>,
    <<"<", "p", ":", "t", ".", ">">>,
    <<"<", "p", ":", ".", "q", " ", "/", ">">>,
    <<"<", "/", "A", "/", ">">>,
    <<"<", "A", " ", "!", ">">>,
    <<"<", "A", " ", "b", ":", " ", ">">>,
    <<"<", "A", " ", "b", "=", "x", ">">>,
    <<"<", "A", " ", "b", "=", "!", ">">>,
    <<"<", "A", " ", "b", "=">>,
    <<"<", "p", ":", "t", ".", "\\", "a", ">">>,
    <<"<", "A", " ", "b", ":", "\\", "a", ">">>,
    <<"<", "C", " ", "v", "=", "t", "r", "u", "e", "\\", "a", ">">>,
    <<"#", "\\", "\n", "a">>,
    <<"<", "A", ">", "<", "B", ">", "<", "/", "B", ">", "t", "e", "x", "t", "<", "/", "A", ">">>,
    <<"<", "A", ">", "t", "e", "x", "t", "<", "B", ">", "<", "/", "B", ">", "<", "/", "A", ">">>
  }

\* a well-formed top-level element: an open/close pair, a self-closing tag
Elements ==
  {<<"<", "A", ">", "<", "/", "A", ">">>, <<"<", "P", "/", ">">>}

\* the trivia between two top-level elements: none, whitespace, a comment
\* and the end of its line
Separators == {<<>>, <<" ">>, <<"#", "c", "\n">>}

\* the documents of at most n top-level elements
RECURSIVE Siblings(_)
Siblings(n) ==
  IF n = 0 THEN {<<>>}
  ELSE Siblings(n - 1)
       \cup {IF d = <<>> THEN e ELSE d \o s \o e :
               d \in Siblings(n - 1), s \in Separators, e \in Elements}

\* the documents of up to MaxRoots top-level elements
SiblingInputs == Siblings(MaxRoots)

Inputs ==
  Corpus \cup {c \o t : c \in Contexts, t \in Strings(MaxLen)}
         \cup SiblingInputs

(* --------------------------- specification ---------------------------- *)

\* part_002 lines 192-193: scan(source) creates the generator and, on the
\* first pull, a SourceCode with head {offset: 0, line: 1, column: 1}
\* (sourceCode.ts line 11)
Init ==
  /\ code \in Inputs
  /\ head = Location(0, 1, 1)
  /\ stack = <<Frame("scan")>>
  /\ out = <<>>
  /\ status = "running"
  /\ runs = <<>>
  /\ parked = <<>>

Next ==
  \/ scan_loop
  \/ scan_peek
  \/ scan_tail
  \/ scan_eof
  \/ return
  \/ scanTrivia
  \/ scanTag_lessThan
  \/ scanTag_leadingSlash
  \/ scanTag_tagName
  \/ scanTag_attributes
  \/ scanTag_trailingSlash
  \/ scanTag_selfClosing
  \/ scanTag_greaterThan
  \/ scanTag_children
  \/ scanAttributes_loop
  \/ scanAttributes_peek
  \/ scanAttributes_trivia
  \/ scanAttributes_equalSign
  \/ scanAttributes_equal
  \/ scanAttributes_expression
  \/ scanChildren_loop
  \/ scanChildren_peek
  \/ scanChildren_text
  \/ scanExpression
  \/ scanNumberLiteral
  \/ scanStringLiteral_quotes
  \/ scanStringLiteral_token
  \/ scanKeyword
  \/ scanTagName_peek
  \/ scanTagName_shorthandAccess
  \/ scanTagName_atSign
  \/ scanTagName_nameOrPrefix
  \/ scanTagName_colon
  \/ scanTagName_target
  \/ scanTagName_memberAccess
  \/ scanTagName_property
  \/ scanAttributeName_prefixOrName
  \/ scanAttributeName_colon
  \/ scanAttributeName_name

Spec == Init /\ [][Next]_vars

(* ------------------------ reading the stream -------------------------- *)

Last(s) == s[Len(s)]

\* the tokens of the stream, in yield order, and its error values
Tokens == [i \in 1..Len(SelectSeq(out, isRight)) |->
             SelectSeq(out, isRight)[i].value]
Errors == [i \in 1..Len(SelectSeq(out, isLeft)) |->
             SelectSeq(out, isLeft)[i].value]
NoError == Errors = <<>>

IsToken(v, kind) == isRight(v) /\ v.value.kind = kind
IsError(v, error) == isLeft(v) /\ v.value.error = error

RECURSIVE TokenTexts(_)
TokenTexts(toks) ==
  IF toks = <<>> THEN <<>>
  ELSE Head(toks).value.text \o TokenTexts(Tail(toks))

\* the errors after which the routines go on by design: part_002 lines
\* 243-245 and 373-377
Continuable ==
  {"Unterminated string literal, missing closing quote",
   "A closing tag cannot be self-closing"}

(* ------------------------------ claims -------------------------------- *)

\* C1: a syntax error other than the two continuable ones is the last value
\* of the stream: no token (no EOF in particular) and no error follows it.
C1_FatalErrorIsLast ==
  \A i \in 1..Len(out) :
    (isLeft(out[i]) /\ out[i].value.error \notin Continuable) => i = Len(out)

\* C2: the stream of a finite input is finite; in particular the error
\* 'Expected attribute name' is not yielded again from the same cursor
\* position (the attribute loop does not iterate without progress).
C2_AttributeNameErrorOnce ==
  \A i, j \in 1..Len(out) :
    (/\ i < j
     /\ IsError(out[i], "Expected attribute name")
     /\ IsError(out[j], "Expected attribute name"))
    => <<out[i].value.line, out[i].value.column>>
         # <<out[j].value.line, out[j].value.column>>

\* C3: pulling scan(input) never raises an exception, whatever the input.
C3_NeverThrows == status # "thrown"

\* C4: tokens are yielded in source order: each token starts at or after
\* the end of the token yielded before it.
C4_SourceOrder ==
  \A i \in 1..(Len(Tokens) - 1) :
    Tokens[i + 1].value.start.offset >= Tokens[i].value.end.offset

\* C5: the text of every token is the input from its start offset to its
\* end offset, so the offsets differ by the length of the text.
C5_TextIsSpan ==
  \A i \in 1..Len(Tokens) :
    LET v == Tokens[i].value
    IN  /\ v.text = SubSeq(code, v.start.offset + 1, v.end.offset)
        /\ v.end.offset - v.start.offset = Len(v.text)

\* C6: when the scan ends without an error value, the token texts in yield
\* order concatenate to the input.
C6_TextsRebuildInput ==
  (status = "done" /\ NoError) => TokenTexts(Tokens) = code

\* C7: a scan that yields no error value yields exactly one EOF token, as
\* its last value, with empty text and start = end at the input's length.
C7_EOFClosesCleanScan ==
  (status # "running" /\ NoError) =>
    /\ out # <<>>
    /\ IsToken(Last(out), "EOF")
    /\ Cardinality({i \in 1..Len(out) : IsToken(out[i], "EOF")}) = 1
    /\ Last(out).value.value.text = <<>>
    /\ Last(out).value.value.start = Last(out).value.value.end
    /\ Last(out).value.value.start.offset = Len(code)

\* C8: the attribute-name scan of a name that no ':' follows ends with
\* that name yielded as a Name token.
C8_PlainAttributeNameYielded ==
  [][(/\ status = "running"
      /\ Top.fn = "scanAttributeName"
      /\ ~IsNull(Top.prefixOrName)
      /\ IsNull(Top.colon)
      /\ status' # "thrown"
      /\ Len(stack') < Len(stack))
     => (/\ out' # <<>>
         /\ Last(out') = Token("Name", The(Top.prefixOrName)))]_vars

\* well-nested inputs with a text run in an element's content, after and
\* before a nested child
MixedContent ==
  {<<"<", "A", ">", "<", "B", ">", "<", "/", "B", ">", "t", "e", "x", "t",
     "<", "/", "A", ">">>,
   <<"<", "A", ">", "t", "e", "x", "t", "<", "B", ">", "<", "/", "B", ">",
     "<", "/", "A", ">">>}

\* C9: a text run in an element's content is yielded as one Text token and
\* raises no error, whether it comes before or after a nested child.
C9_MixedContentText ==
  (code \in MixedContent /\ status = "done") =>
    /\ NoError
    /\ Cardinality({i \in 1..Len(Tokens) :
                      /\ Tokens[i].kind = "Text"
                      /\ Tokens[i].value.text = <<"t", "e", "x", "t">>}) = 1

\* C10: the StringLiteral token that follows 'Unterminated string literal'
\* spans what was consumed: from the opening quote to the end of the
\* input, with the consumed characters as its text.
C10_UnterminatedSpan ==
  \A i \in 1..(Len(out) - 1) :
    IsError(out[i], "Unterminated string literal, missing closing quote") =>
      /\ IsToken(out[i + 1], "StringLiteral")
      /\ LET v == out[i + 1].value.value
         IN  /\ code[v.start.offset + 1] = "\""
             /\ v.end.offset = Len(code)
             /\ v.text = SubSeq(code, v.start.offset + 1, Len(code))

\* the index of the first '"' of src at or after index i that is not the
\* second character of a backslash pair, 0 when there is none
RECURSIVE ClosingQuote(_, _)
ClosingQuote(src, i) ==
  IF i > Len(src) THEN 0
  ELSE IF src[i] = "\\" THEN ClosingQuote(src, i + 2)
  ELSE IF src[i] = "\"" THEN i
  ELSE ClosingQuote(src, i + 1)

\* C11: a string literal whose opening quote has a closing quote (the first
\* '"' that is not the second character of a backslash pair) is scanned
\* without an exception and without an error value, up to just after that
\* quote, and yields exactly one StringLiteral token whose text is the raw
\* input between the two quotes.
C11_EscapedPairsInString ==
  [][(/\ status = "running"
      /\ Len(out) < MaxOut
      /\ Top.fn = "scanStringLiteral")
     => IF Top.pc = "start"
          THEN ClosingQuote(code, head.offset + 2) # 0
               => /\ status' = "running"
                  /\ out' = out
                  /\ head'.offset = ClosingQuote(code, head.offset + 2)
                  /\ Top'.pc = "token"
                  /\ ~IsNull(Top'.trailingQuote)
        ELSE IF Top.pc = "token"
          THEN ~IsNull(Top.trailingQuote)
               => LET s == The(Top.leadingQuote).start
                  IN  /\ head.offset = ClosingQuote(code, s.offset + 2)
                      /\ out' = Append(out, Token("StringLiteral",
                                  [text |-> SubSeq(code, s.offset + 2,
                                                   head.offset - 1),
                                   start |-> s, end |-> head]))
        ELSE out' = out]_vars

\* a StringLiteral token whose text holds an escaped quote
C11_EscapedQuoteKept ==
  \E i \in 1..Len(Tokens) :
    /\ Tokens[i].kind = "StringLiteral"
    /\ \E k \in 1..(Len(Tokens[i].value.text) - 1) :
         /\ Tokens[i].value.text[k] = "\\"
         /\ Tokens[i].value.text[k + 1] = "\""
    /\ Tokens[i].value.end.offset > Tokens[i].value.start.offset

\* C12: a number consumption that fails does not move the cursor: the step
\* that yields 'Invalid number literal' leaves the head where it was and
\* reports that position, the one of the '-' or '.' it met.
C12_NumberFailureKeepsHead ==
  [][(/\ out' # out
      /\ IsError(Last(out'), "Invalid number literal"))
     => (/\ head' = head
         /\ Last(out').value.line = head.line
         /\ Last(out').value.column = head.column)]_vars

\* the number of digits of src in a row from index i on
RECURSIVE DigitRun(_, _)
DigitRun(src, i) ==
  IF i > Len(src) \/ src[i] \notin Num THEN 0 ELSE 1 + DigitRun(src, i + 1)

\* the longest prefix of src after offset o of the form optional '-',
\* digits, optional '.', digits: its length and the number of its digits
NumberPrefix(src, o) ==
  LET sign == IF o + 1 <= Len(src) /\ src[o + 1] = "-" THEN 1 ELSE 0
      int == DigitRun(src, o + sign + 1)
      dot == IF o + sign + int + 1 <= Len(src) /\ src[o + sign + int + 1] = "."
             THEN 1 ELSE 0
      frac == DigitRun(src, o + sign + int + dot + 1)
  IN  [len |-> sign + int + dot + frac, digits |-> int + frac]

\* C13: the number-literal scan yields exactly one value: the NumberLiteral
\* token whose text and span are the longest prefix of the form optional
\* '-', digits, optional '.', digits when that prefix has a digit, the
\* error 'Invalid number literal' (and no NumberLiteral token) otherwise.
C13_NumberIsLongestPrefix ==
  [][(/\ status = "running"
      /\ Len(out) < MaxOut
      /\ Top.fn = "scanNumberLiteral")
     => IF Top.pc = "start"
          THEN LET p == NumberPrefix(code, head.offset)
                   text == SubSeq(code, head.offset + 1, head.offset + p.len)
               IN  /\ status' = "running"
                   /\ Len(out') = Len(out) + 1
                   /\ IF p.digits > 0
                        THEN Last(out') =
                               Token("NumberLiteral",
                                     [text |-> text, start |-> head,
                                      end |-> Advance(head, text)])
                        ELSE IsError(Last(out'), "Invalid number literal")
        ELSE out' = out]_vars

\* the index of the end of the line of src that holds index i: of its
\* '\n', or Len(src) + 1 when the line is the last one
RECURSIVE LineEnd(_, _)
LineEnd(src, i) ==
  IF i > Len(src) \/ src[i] = "\n" THEN i ELSE LineEnd(src, i + 1)

\* the index of the first character of src at or after index i that is not
\* trivia: neither a whitespace character nor part of a comment, which runs
\* from a '#' to the end of its line
RECURSIVE TriviaEnd(_, _)
TriviaEnd(src, i) ==
  IF i > Len(src) THEN i
  ELSE IF src[i] \in Whitespace THEN TriviaEnd(src, i + 1)
  ELSE IF src[i] = "#" THEN TriviaEnd(src, LineEnd(src, i))
  ELSE i

\* the location of index i of src
LocationOf(src, i) == Advance(Location(0, 1, 1), SubSeq(src, 1, i - 1))

\* C14 (at the first document-level position, after the leading trivia of
\* the input): when the first character c that is not trivia is not '<',
\* the scan yields the trivia tokens, then the error "Unexpected character
\* 'c'" at the position of c, and ends there: the error is its last value.
C14_UnexpectedCharacterEnds ==
  LET k == TriviaEnd(code, 1)
  IN  (status # "running" /\ k <= Len(code) /\ code[k] # "<") =>
        /\ out # <<>>
        /\ Last(out) = Error(LocationOf(code, k), "Unexpected character",
                             <<code[k]>>)
        /\ \A i \in 1..(Len(out) - 1) :
             IsToken(out[i], "Whitespace") \/ IsToken(out[i], "Comment")

\* C15: when the tag scan comes to the place of the '>' (after the name,
\* the attributes and the optional trailing '/') and the next character is
\* not '>' or the input has ended, it yields "Expected '>' at the end of
\* the tag" at the head, which it leaves in place, and then returns: it
\* yields no GreaterThan token and does not start the children scan.
C15_MissingGreaterThan ==
  [][(/\ status = "running"
      /\ Len(out) < MaxOut
      /\ Top.fn = "scanTag")
     => IF /\ Top.pc = "greaterThan"
           /\ (head.offset >= Len(code) \/ code[head.offset + 1] # ">")
          THEN /\ out' = Append(out, Error(head,
                            "Expected '>' at the end of the tag", <<>>))
               /\ head' = head
               /\ stack' = Append(Below, [Top EXCEPT !.pc = "return"])
        ELSE IF /\ Top.pc = "return"
                /\ out # <<>>
                /\ IsError(Last(out), "Expected '>' at the end of the tag")
          THEN /\ out' = out
               /\ head' = head
               /\ stack' = Below
        ELSE TRUE]_vars

\* a scan that ended after an unterminated tag header: the error is in the
\* stream and no GreaterThan token is
C15_UnterminatedHeaderScanned ==
  /\ status = "done"
  /\ \E i \in 1..Len(out) :
       IsError(out[i], "Expected '>' at the end of the tag")
  /\ \A i \in 1..Len(out) : ~IsToken(out[i], "GreaterThan")

\* C16: a tag scan that consumed a leading and a trailing '/' has yielded
\* both Slash tokens, then yields 'A closing tag cannot be self-closing'
\* and goes on: when '>' is next it yields the GreaterThan token after the
\* error, and it returns without starting the children scan.
C16_SelfClosingClosingTag ==
  [][(/\ status = "running"
      /\ Len(out) < MaxOut
      /\ Top.fn = "scanTag"
      /\ ~IsNull(Top.leadingSlash)
      /\ ~IsNull(Top.trailingSlash))
     => CASE Top.pc = "selfClosing" ->
               /\ \E i \in 1..(Len(out) - 1) :
                    out[i] = Token("Slash", The(Top.leadingSlash))
               /\ Last(out) = Token("Slash", The(Top.trailingSlash))
               /\ out' = Append(out, Error(head,
                            "A closing tag cannot be self-closing", <<>>))
               /\ head' = head
               /\ stack' = Append(Below, [Top EXCEPT !.pc = "greaterThan"])
          [] Top.pc = "greaterThan" ->
               /\ IsError(Last(out), "A closing tag cannot be self-closing")
               /\ (head.offset < Len(code) /\ code[head.offset + 1] = ">")
                  => /\ out' = Append(out, Token("GreaterThan",
                                  [text |-> <<">">>, start |-> head,
                                   end |-> head']))
                     /\ head'.offset = head.offset + 1
          [] Top.pc = "children" ->
               /\ out' = out
               /\ stack' = Below
          [] OTHER -> TRUE]_vars

\* the GreaterThan token of a tag with both slashes, right after the error
C16_GreaterThanAfterError ==
  \E i \in 1..(Len(out) - 1) :
    /\ IsError(out[i], "A closing tag cannot be self-closing")
    /\ IsToken(out[i + 1], "GreaterThan")
    /\ status = "done"

\* C20: for the empty input the scan yields exactly one value, the EOF
\* token with empty text whose start and end are offset 0, line 1, column 1.
C20_EmptyInput ==
  code = <<>> =>
    /\ status # "thrown"
    /\ Len(out) <= 1
    /\ status = "done" =>
         out = <<Token("EOF", [text |-> <<>>, start |-> Location(0, 1, 1),
                               end |-> Location(0, 1, 1)])>>

\* the scan of the empty input has ended
C20_EmptyInputScanned == code = <<>> /\ status = "done" /\ out # <<>>

\* the characters of a name, and the character of src at index i ("" past
\* the end)
NameChars == {"_", "-"} \cup AlphaNum
CharAt(src, i) == IF i >= 1 /\ i <= Len(src) THEN src[i] ELSE ""

\* the index that ends the maximal run of characters of set from index i on
RECURSIVE RunEnd(_, _, _)
RunEnd(src, i, set) ==
  IF i > Len(src) \/ src[i] \notin set THEN i ELSE RunEnd(src, i + 1, set)

\* the token of a kind whose span is src from index i up to index j
Part(kind, src, i, j) ==
  Token(kind, [text |-> SubSeq(src, i, j - 1), start |-> LocationOf(src, i),
               end |-> LocationOf(src, j)])

\* the values of a tag name that starts at index i of src, one per part:
\* optional '.', optional '@', a name, then optionally ':' and a name, then
\* optionally '.' and a name, whose absence is an error
TagNameValues(src, i) ==
  LET a == IF CharAt(src, i) = "." THEN i + 1 ELSE i
      b == IF CharAt(src, a) = "@" THEN a + 1 ELSE a
      n1 == RunEnd(src, b, NameChars)
      n2 == RunEnd(src, n1 + 1, NameChars)
      n3 == RunEnd(src, n2 + 1, NameChars)
      Name(from, to) ==
        IF to > from THEN <<Part("Name", src, from, to)>> ELSE <<>>
  IN  (IF a > i THEN <<Part("Dot", src, i, a)>> ELSE <<>>)
      \o (IF b > a THEN <<Part("AtSign", src, a, b)>> ELSE <<>>)
      \o Name(b, n1)
      \o (IF CharAt(src, n1) # ":" THEN <<>>
          ELSE <<Part("Colon", src, n1, n1 + 1)>>
               \o Name(n1 + 1, n2)
               \o (IF CharAt(src, n2) # "." THEN <<>>
                   ELSE <<Part("Dot", src, n2, n2 + 1)>>
                        \o (IF n3 > n2 + 1 THEN Name(n2 + 1, n3)
                            ELSE <<Error(LocationOf(src, n2 + 1),
                                     "Expected property name after '.'",
                                     <<>>)>>)))

\* C17: the values that follow the LessThan token of a tag (and its Slash,
\* for '</') are the parts of the tag name, one token per part in source
\* order: Dot, AtSign, Name, Colon, Name, Dot, Name as far as the parts are
\* there, the error "Expected property name after '.'" when no name follows
\* the last '.', and no token when the name is empty (the next character is
\* '>' or '/' or the input has ended).  For tags whose name is not preceded
\* by trivia.
C17_TagNameParts ==
  \A i \in 1..Len(out) :
    IsToken(out[i], "LessThan") =>
      LET lt == out[i].value.value.end.offset
          from == IF CharAt(code, lt + 1) = "/" THEN lt + 2 ELSE lt + 1
          j == i + (from - lt - 1)
          parts == TagNameValues(code, from)
      IN  CharAt(code, from) \notin Whitespace \cup {"#"} =>
            /\ \A k \in 1..Len(parts) :
                 j + k <= Len(out) => out[j + k] = parts[k]
            /\ status # "running" => j + Len(parts) <= Len(out)
            /\ (CharAt(code, from) \in {"", ">", "/"} /\ j + 1 <= Len(out))
               => \A kind \in {"Name", "Dot", "AtSign", "Colon"} :
                    ~IsToken(out[j + 1], kind)

\* C18: the attribute-name scan of a name that ':' follows yields the Name
\* token of that name, then the Colon token, then the Name token of the
\* maximal run of name characters after the ':', or, when no name character
\* follows the ':', the error 'Expected attribute name' and no Name token.
C18_AttributeNameWithColon ==
  [][(/\ status = "running"
      /\ Len(out) < MaxOut
      /\ Top.fn = "scanAttributeName")
     => LET i == head.offset + 1
            n == RunEnd(code, i, NameChars)
        IN  CASE Top.pc = "start" ->
                   (n > i /\ CharAt(code, n) = ":")
                   => /\ out' = Append(out, Part("Name", code, i, n))
                      /\ head'.offset = n
                      /\ status' = "running"
                      /\ Top'.pc = "colon"
              [] Top.pc = "colon" ->
                   /\ out' = Append(out, Part("Colon", code, i - 1, i))
                   /\ head' = head
                   /\ Top'.pc = "name"
              [] Top.pc = "name" /\ ~IsNull(Top.colon) ->
                   IF n > i
                     THEN out' = Append(out, Part("Name", code, i, n))
                     ELSE out' = Append(out, Error(head,
                                    "Expected attribute name", <<>>))
              [] OTHER -> TRUE]_vars

\* C19: the expression scan yields 'Expected an expression, but found EOF'
\* at the end of the input, hands a digit, '-' or '.' to the number scan, a
\* '"' to the string scan and anything else to the keyword scan, which
\* reads the maximal run of alphanumerics and yields BooleanLiteral for
\* true and false, 'Unrecognized keyword' for another run that is not
\* empty and 'Expected identifier' for the empty run; the text of every
\* BooleanLiteral token is true or false.
C19_ExpressionOutcome ==
  [][/\ (status = "running" /\ Len(out) < MaxOut)
        => LET i == head.offset + 1
               c == CharAt(code, i)
               n == RunEnd(code, i, AlphaNum)
               word == SubSeq(code, i, n - 1)
           IN  CASE Top.fn = "scanExpression" /\ Top.pc = "start" ->
                      IF c = ""
                        THEN out' = Append(out, Error(head,
                               "Expected an expression, but found EOF", <<>>))
                        ELSE /\ out' = out
                             /\ head' = head
                             /\ Top'.pc = "start"
                             /\ Top'.fn =
                                  IF c \in Num \cup {"-", "."}
                                    THEN "scanNumberLiteral"
                                  ELSE IF c = "\"" THEN "scanStringLiteral"
                                  ELSE "scanKeyword"
                 [] Top.fn = "scanKeyword" /\ Top.pc = "start" ->
                      IF word \in {<<"t", "r", "u", "e">>,
                                   <<"f", "a", "l", "s", "e">>}
                        THEN out' = Append(out,
                                      Part("BooleanLiteral", code, i, n))
                      ELSE IF word # <<>>
                        THEN /\ status' = "running"
                             /\ Len(out') = Len(out) + 1
                             /\ IsError(Last(out'), "Unrecognized keyword")
                      ELSE out' = Append(out, Error(head,
                                    "Expected identifier", <<>>))
                 [] OTHER -> TRUE
     /\ \A k \in 1..Len(out') :
          IsToken(out'[k], "BooleanLiteral")
          => out'[k].value.value.text \in {<<"t", "r", "u", "e">>,
                                           <<"f", "a", "l", "s", "e">>}]_vars

\* C21: for a non-empty input made only of space, tab, '\n' and '\r' the
\* scan yields exactly two values: the Whitespace token whose text is the
\* whole input, from offset 0 to its length, then the EOF token at the end.
C21_WhitespaceOnlyInput ==
  (code # <<>> /\ \A i \in 1..Len(code) : code[i] \in {" ", "\t", "\n", "\r"})
  => /\ status # "thrown"
     /\ Len(out) <= 2
     /\ out # <<>> => out[1] = Part("Whitespace", code, 1, Len(code) + 1)
     /\ status = "done" =>
          /\ Len(out) = 2
          /\ out[2] = Part("EOF", code, Len(code) + 1, Len(code) + 1)

\* the scan of a whitespace-only input of two lines has ended
C21_WhitespaceOnlyScanned ==
  /\ status = "done"
  /\ Len(code) >= 2
  /\ \A i \in 1..Len(code) : code[i] \in {" ", "\t", "\n", "\r"}
  /\ \E i \in 1..Len(code) : code[i] = "\n"

C23_CommentToLineEnd ==
  \A i \in 1..Len(Tokens) :
    Tokens[i].kind = "Comment" =>
      LET v == Tokens[i].value
          e == LineEnd(code, v.start.offset + 1) - 1
      IN  /\ v.text # <<>>
          /\ v.text[1] = "#"
          /\ \A k \in 1..Len(v.text) : v.text[k] # "\n"
          /\ v.end.offset = e
          /\ \A j \in 1..Len(Tokens) :
               ~(/\ Tokens[j].value.start.offset > v.start.offset
                 /\ Tokens[j].value.start.offset < e)

\* the line and the column of the position after the first n characters of
\* src, counted from the text alone
LineOf(src, n) == 1 + Cardinality({k \in 1..n : src[k] = "\n"})
ColumnOf(src, n) ==
  LET breaks == {k \in 1..n : src[k] = "\n"}
  IN  IF breaks = {} THEN 1 + n
      ELSE 1 + n - (CHOOSE k \in breaks : \A m \in breaks : m <= k)

\* C24: every error value scan yields carries the line and the column of
\* the head at the moment it is yielded, both counted from 1: the position
\* after the last consumed character.
C24_ErrorAtHead ==
  [][\A i \in (Len(out) + 1)..Len(out') :
       isLeft(out'[i]) =>
         /\ out'[i].value.line = head'.line
         /\ out'[i].value.column = head'.column
         /\ out'[i].value.line = LineOf(code, head'.offset)
         /\ out'[i].value.column = ColumnOf(code, head'.offset)
         /\ out'[i].value.line >= 1
         /\ out'[i].value.column >= 1]_vars

C24_ErrorOnSecondLine ==
  /\ out # <<>>
  /\ isLeft(Last(out))
  /\ Last(out).value.line = 2
  /\ Last(out).value.column > 1
  /\ head.offset = Len(code)

\* the index that ends the maximal run of characters satisfying cond from
\* index i on
RECURSIVE RunEndOf(_, _, _)
RunEndOf(src, i, cond) ==
  IF i > Len(src) \/ ~Sat(cond, src[i]) THEN i ELSE RunEndOf(src, i + 1, cond)

\* C27: eatWhile at the head consumes exactly the maximal run of characters
\* that satisfy the predicate and returns null, head unchanged, when the
\* run is empty; so a Whitespace token holds whitespace only, a Name token
\* name characters only and a Text token no '<', backslashes or not.
C27_EatWhileMaximalRun ==
  /\ \A cond \in {isWhitespace, isNameChar, isAlphaNum, isNum,
                  IsNot({"<"}), IsNot({"\n"})} :
       LET r == eatWhile(code, head, cond)
           e == RunEndOf(code, head.offset + 1, cond)
       IN  /\ ~r.thrown
           /\ IF e = head.offset + 1 THEN r = Got(Null, head)
              ELSE /\ ~IsNull(r.span)
                   /\ The(r.span).text = SubSeq(code, head.offset + 1, e - 1)
                   /\ r.head.offset = e - 1
  /\ \A i \in 1..Len(Tokens) :
       LET text == Tokens[i].value.text
       IN  /\ Tokens[i].kind = "Whitespace" =>
                \A k \in 1..Len(text) : text[k] \in Whitespace
           /\ Tokens[i].kind = "Name" =>
                \A k \in 1..Len(text) : text[k] \in NameChars
           /\ Tokens[i].kind = "Text" =>
                \A k \in 1..Len(text) : text[k] # "<"

\* C28: the offset of the head is always between 0 and the length of the
\* input, and no step of the scan, whichever operations of the cursor it
\* calls (eat, eatWhile, eatUntil, eatExactly, eatIf, eatNumber, eatName;
\* peek and formatError leave the head alone), ever decreases it.
C28_OffsetBoundedMonotonic ==
  [][/\ 0 <= head.offset /\ head.offset <= Len(code)
     /\ head.offset <= head'.offset
     /\ head'.offset <= Len(code)]_vars

C28_ThrownInsideInput ==
  /\ status = "thrown"
  /\ head.offset > 0
  /\ head.offset < Len(code)

\* a location agrees with the text of the input before its offset
Consistent(l) ==
  /\ l.offset \in 0..Len(code)
  /\ l.line = LineOf(code, l.offset)
  /\ l.column = ColumnOf(code, l.offset)

\* C29: the line of the head is 1 plus the number of '\n' among the
\* characters before its offset, its column 1 plus the number of characters
\* since the last of them (since the start when there is none); the start
\* and the end of every token yielded satisfy the same for their offsets.
C29_LocationsConsistent ==
  /\ Consistent(head)
  /\ \A i \in 1..Len(Tokens) :
       /\ Consistent(Tokens[i].value.start)
       /\ Consistent(Tokens[i].value.end)

C29_TokenOnSecondLine ==
  \E i \in 1..Len(Tokens) :
    /\ Tokens[i].value.start.line = 2
    /\ Tokens[i].value.start.column > 1
    /\ Tokens[i].value.end.column > Tokens[i].value.start.column

(* ------------------------- the cursor alone --------------------------- *)

\* a SourceCode object called directly: out holds the last call, with its
\* argument and what it returned or that it threw; the object stays usable
\* after a throw, and no generator runs (the stack is empty)
MaxCount == 3
Literals == {<<"<">>, <<"/">>, <<"\n">>, <<"/", ">">>}

Called(op, arg, r) ==
  /\ head' = r.head
  /\ out' = <<[op |-> op, arg |-> arg, thrown |-> r.thrown, span |-> r.span]>>
  /\ UNCHANGED <<code, stack, status, runs, parked>>

\* sourceCode.ts lines 59-83
cursor_eat ==
  /\ stack = <<>>
  /\ \E count \in 0..MaxCount : Called("eat", count, eat(code, head, count))

\* sourceCode.ts lines 146-153
cursor_eatIf ==
  /\ stack = <<>>
  /\ \E expected \in Literals :
       Called("eatIf", expected, eatIf(code, head, expected))

\* sourceCode.ts lines 128-139
cursor_eatExactly ==
  /\ stack = <<>>
  /\ \E expected \in Literals :
       Called("eatExactly", expected, eatExactly(code, head, expected))

\* sourceCode.ts lines 7-17: new SourceCode(source)
InitCursor ==
  /\ code \in Strings(MaxLen)
  /\ head = Location(0, 1, 1)
  /\ stack = <<>>
  /\ out = <<>>
  /\ status = "running"
  /\ runs = <<>>
  /\ parked = <<>>

NextCursor ==
  \/ cursor_eat
  \/ cursor_eatIf
  \/ cursor_eatExactly

SpecCursor == InitCursor /\ [][NextCursor]_vars

\* the characters of literal are the next ones at the head
IsNext(literal) ==
  /\ head.offset + Len(literal) <= Len(code)
  /\ SubSeq(code, head.offset + 1, head.offset + Len(literal)) = literal

\* the call moved the head over the n characters after it and returned them
Consumed(call, n) ==
  /\ ~call.thrown
  /\ ~IsNull(call.span)
  /\ The(call.span).text = SubSeq(code, head.offset + 1, head.offset + n)
  /\ The(call.span).start = head
  /\ The(call.span).end = head'
  /\ head' = LocationOf(code, head.offset + n + 1)

\* C30: eat(count) throws exactly when fewer than count characters are left
\* after the head, and then leaves the head as it was; eatIf(literal) never
\* throws, moves the head over the literal when it is next and returns null
\* with the head as it was otherwise; eatExactly(literal) throws with the
\* head as it was when the literal is not next.
C30_FailureKeepsHead ==
  [][out' # <<>> =>
       LET call == out'[1]
       IN  CASE call.op = "eat" ->
                  IF Len(code) - head.offset < call.arg
                  THEN call.thrown /\ head' = head
                  ELSE Consumed(call, call.arg)
             [] call.op = "eatIf" ->
                  IF IsNext(call.arg) THEN Consumed(call, Len(call.arg))
                  ELSE ~call.thrown /\ IsNull(call.span) /\ head' = head
             [] call.op = "eatExactly" ->
                  IF IsNext(call.arg) THEN Consumed(call, Len(call.arg))
                  ELSE call.thrown /\ head' = head]_vars

C30_EatFailedOnSecondLine ==
  /\ out # <<>>
  /\ out[1].op = "eat"
  /\ out[1].thrown
  /\ head.line = 2
  /\ head.offset < Len(code)

(* ------------------------- scan called again -------------------------- *)

\* part_002 lines 192-193: the generator scan(src) returns; its SourceCode,
\* made on the first pull, has its own head (sourceCode.ts line 11)
Generator(src) ==
  [code |-> src, head |-> Location(0, 1, 1), stack |-> <<Frame("scan")>>,
   out |-> <<>>, status |-> "running"]

\* the generator being pulled, and what a scan pulled to exhaustion gave
Current ==
  [code |-> code, head |-> head, stack |-> stack, out |-> out,
   status |-> status]
Result == [code |-> code, out |-> out, status |-> status]

\* the consumer turns to generator g
Resume(g) ==
  /\ code' = g.code
  /\ head' = g.head
  /\ stack' = g.stack
  /\ out' = g.out
  /\ status' = g.status

\* inputs that between them pass through every block of the tokenizer
TwoInputs ==
  {
    <<"S", "o">>,
    <<"<", "/", ">">>,
    <<"<", "T", " ", "v", "=", "\"", "t", "e", "s", "t", "\\">>,
    <<"<", "p", ":", "t", ".", ">">>,
    <<"<", "c", "f", "g", ":", "P", " ", "b", "i", "n", "d", ":", "t", "i", "t", "l", "e", "=", "\"", "U", " ", "P", "\"", " ", "/", ">">>,
    <<"<", "T", ">", "W", "e", " ", "t", "o", "<", "/", "T", ">">>,
    <<"<", "C", " ", "v", "=", "t", "r", "u", "e", " ", "/", ">">>,
    <<"<", "C", " ", "v", "=", "4", "2", " ", "/", ">">>
  }

\* a second scan that goes on from the head the first one left
rescanKeepsHead ==
  /\ status # "running"
  /\ runs = <<>>
  /\ runs' = <<Result>>
  /\ \E src \in TwoInputs : Resume([Generator(src) EXCEPT !.head = head])
  /\ parked' = parked

\* the first scan is exhausted: the consumer keeps what it gave and calls
\* scan again, on the same input or on another one
rescan ==
  /\ status # "running"
  /\ runs = <<>>
  /\ runs' = <<Result>>
  /\ \E src \in TwoInputs : Resume(Generator(src))
  /\ parked' = parked

\* the second scan is exhausted too: the consumer calls scan on both inputs
\* once more and holds the two generators side by side
interleave ==
  /\ status # "running"
  /\ Len(runs) = 1
  /\ runs' = Append(runs, Result)
  /\ Resume(Generator(runs[1].code))
  /\ parked' = <<Generator(code)>>

\* a switch that leaves the head where it is: one cursor for both scans
switchSharesHead ==
  /\ parked # <<>>
  /\ Resume([parked[1] EXCEPT !.head = head])
  /\ parked' = <<Current>>
  /\ runs' = runs

\* the consumer turns from one generator to the other.  It may do so
\* between any two blocks, which includes every order of pulls.
switch ==
  /\ parked # <<>>
  /\ Resume(parked[1])
  /\ parked' = <<Current>>
  /\ runs' = runs

InitTwo ==
  /\ code \in TwoInputs
  /\ head = Location(0, 1, 1)
  /\ stack = <<Frame("scan")>>
  /\ out = <<>>
  /\ status = "running"
  /\ runs = <<>>
  /\ parked = <<>>

NextTwo ==
  \/ Next
  \/ rescan
  \/ interleave
  \/ switch

SpecTwo == InitTwo /\ [][NextTwo]_vars

IsPrefix(s, t) == Len(s) <= Len(t) /\ s = SubSeq(t, 1, Len(s))

====
